---- MODULE Spec2Model ----
(***************************************************************************)
(* Model of the wealth analytics module (calculations.js, kept in the      *)
(* repository as wealth_math_fixes.js): calculateExcessWealth,             *)
(* calculateUtility, calculateGiniCoefficient, calculatePalmaRatio and     *)
(* processWealthData, applied by a caller to a collection of wealth        *)
(* records and to the flat array of its wealth values.                     *)
(*                                                                         *)
(* Numbers are exact: a JS number is modelled by the real it denotes,      *)
(* written num/den * 10^e10 (den > 0).  A quotient of two log1p values is  *)
(* kept symbolically (see Log1pRatio).  Floating-point rounding is not     *)
(* modelled.                                                               *)
(***************************************************************************)
EXTENDS Integers, Sequences, FiniteSets, TLC

\* ---------------------------------------------------------------- bounds
MaxLen == 3
MaxWealth == 3
\* the large collections (ten records and more) used for the Palma ratio
PalmaMaxWealth == 1
PalmaExtraLen == 0
\* number of slider positions above 0 that are explored
MaxSliderSteps == 20

\* exponent of the scale factor 1e12 ("trillions")
TrillionExp == 12

\* step of the threshold slider
SliderStep == 10000

\* threshold of a fresh view and of "Reset to defaults"
DefaultThreshold == 200000

\* ---------------------------------------------------------------- numbers
Num(n) == [num |-> n, den |-> 1, e10 |-> 0]
Zero == Num(0)
One == Num(1)

\* x / 10^k
DivPow10(x, k) == [x EXCEPT !.e10 = @ - k]

\* x / d for an integer d > 0
DivInt(x, d) == [x EXCEPT !.den = @ * d]

Sign(x) == IF x.num > 0 THEN 1 ELSE IF x.num < 0 THEN 0 - 1 ELSE 0

\* a * 10^d < b for integers a > 0, b > 0 and any integer d
RECURSIVE PosLess(_, _, _)
PosLess(a, b, d) ==
  IF d = 0 THEN a < b
  ELSE IF d > 0 THEN (IF a >= b THEN FALSE ELSE PosLess(10 * a, b, d - 1))
  ELSE (IF a < b THEN TRUE ELSE PosLess(a, 10 * b, d + 1))

\* x < y as reals
NumLess(x, y) ==
  IF Sign(x) # Sign(y) THEN Sign(x) < Sign(y)
  ELSE IF Sign(x) = 0 THEN FALSE
  ELSE IF Sign(x) = 1 THEN PosLess(x.num * y.den, y.num * x.den, x.e10 - y.e10)
  ELSE PosLess((0 - y.num) * x.den, (0 - x.num) * y.den, y.e10 - x.e10)

\* x / y for y > 0
NumDiv(x, y) == [num |-> x.num * y.den, den |-> x.den * y.num, e10 |-> x.e10 - y.e10]

\* the JS value Infinity
Infinity == [num |-> 1, den |-> 0, e10 |-> 0]
IsInfinite(x) == x.den = 0

NumLeq(x, y) == ~NumLess(y, x)
NumEq(x, y) == ~NumLess(x, y) /\ ~NumLess(y, x)

\* ---------------------------------------------------------------- values
\* a record of the collection, or a null entry
Point(w) == [isNull |-> FALSE, wealth |-> w]
NullPoint == [isNull |-> TRUE, wealth |-> 0]

\* an array argument, or null/undefined
Arr(items) == [isArray |-> TRUE, items |-> items]
Absent == [isArray |-> FALSE, items |-> <<>>]

\* how a call ends
Return(v) == [threw |-> FALSE, value |-> v]
Throw == [threw |-> TRUE, value |-> Zero]

\* ------------------------------------------------- calculateExcessWealth
\* variant: only negative thresholds are rejected
ExcessGuard_ZeroAllowed(data, threshold) ==
  ~data.isArray \/ Len(data.items) = 0 \/ threshold < 0

ExcessGuard(data, threshold) ==
  ~data.isArray \/ Len(data.items) = 0 \/ threshold <= 0

\* variant: the comparison is reversed
ExcessFilter_Below(point, threshold) == point.wealth < threshold

ExcessFilter(point, threshold) == point.wealth > threshold

\* variant: the whole wealth is summed
ExcessTerm_NoSubtract(point, threshold) == point.wealth

\* variant: the operands of the subtraction are exchanged
ExcessTerm_Swapped(point, threshold) == threshold - point.wealth

ExcessTerm(point, threshold) == point.wealth - threshold

RECURSIVE ExcessFiltered(_, _)
ExcessFiltered(items, threshold) ==
  IF items = <<>> THEN <<>>
  ELSE (IF ExcessFilter(Head(items), threshold) THEN <<Head(items)>> ELSE <<>>)
       \o ExcessFiltered(Tail(items), threshold)

RECURSIVE ExcessReduce(_, _, _)
ExcessReduce(items, threshold, sum) ==
  IF items = <<>> THEN sum
  ELSE ExcessReduce(Tail(items), threshold, sum + ExcessTerm(Head(items), threshold))

\* reading .wealth of a null entry raises a TypeError inside the try block
ExcessThrows(items) == \E i \in 1..Len(items) : items[i].isNull

ExcessScale(totalExcess) == DivPow10(Num(totalExcess), TrillionExp)

ExcessTry(data, threshold) ==
  IF ExcessThrows(data.items) THEN Throw
  ELSE Return(ExcessScale(ExcessReduce(ExcessFiltered(data.items, threshold), threshold, 0)))

\* variant: the error is not absorbed
ExcessCatch_Rethrow(outcome) == outcome

ExcessCatch(outcome) == IF outcome.threw THEN Return(Zero) ELSE outcome

calculateExcessWealth(data, threshold) ==
  IF ExcessGuard(data, threshold) THEN Return(Zero)
  ELSE ExcessCatch(ExcessTry(data, threshold))

\* ------------------------------------------------------ calculateUtility
\* an integer argument of calculateUtility, huge * 2^HugeExp + units with
\* huge 0 or 1 and units a small integer (not negative when huge is 1).
\* Every such value is a double exactly (HugeExp is between 41 and 52).
HugeExp == 50

Plain(n) == [huge |-> 0, units |-> n]

Huge(n) == [huge |-> 1, units |-> n]

\* a < b for two arguments
ArgLess(a, b) == a.huge < b.huge \/ (a.huge = b.huge /\ a.units < b.units)

\* a > 0 for an argument
ArgPositive(a) == a.huge = 1 \/ a.units > 0

\* variant: numerator and denominator are exchanged
Log1pRatio_Swapped(w, t) == [log1pOf |-> t, over |-> w]

\* Math.log1p(w) / Math.log1p(t), kept symbolically; built only for w > 0, t > 0
Log1pRatio(w, t) == [log1pOf |-> w, over |-> t]

IsLog1pRatio(v) == "over" \in DOMAIN v

\* for 0 < a < b: b / (b - a) < 2^40. Then Math.log1p(a) and Math.log1p(b)
\* are distinct doubles whatever the platform's Math.log1p (taken to be
\* accurate to one unit in the last place) returns: the real logarithms
\* differ by at least (b - a) / (1 + b), which is more than
\* 2^-51 * log1p(b), two units in the last place of log1p(b), because
\* log1p(b) * (1 + b) / b is below 2^11 for every double b (log1p(b) is
\* below 710). The test holds for all integers below 2^31 and fails for
\* 10^15 and 10^15 + 1 and for 1.000732421875e112 and its successor
\* 1.0007324218750401e112. It is computed in 32-bit steps.
Log1pApart(a, b) ==
  IF b.huge = 0
  THEN ((b.units \div (b.units - a.units)) \div (2 ^ 20)) < 2 ^ 20
  ELSE IF a.huge = 0 THEN TRUE
  ELSE b.units - a.units > 2 ^ (HugeExp - 40)

\* log1pSame[<<a, b>>]: the platform's Math.log1p gives the arguments
\* a < b, which are not Log1pApart, the same double. Math.log1p is
\* implementation-approximated: the answer is fixed by the platform and
\* not by the program, one answer for each pair of arguments
VARIABLE log1pSame

\* for 0 < a < b: Math.log1p(a) < Math.log1p(b) as doubles
Log1pBelow(a, b) ==
  IF Log1pApart(a, b) THEN TRUE ELSE ~log1pSame[<<a, b>>]

\* utility < 1.0 for the double quotient utility: the quotient of two
\* doubles is below 1 exactly when the numerator is the smaller double
RatioLessOne(r) ==
  ArgLess(r.log1pOf, r.over) /\ Log1pBelow(r.log1pOf, r.over)

\* utility > 1.0 for the double quotient utility
RatioGreaterOne(r) ==
  ArgLess(r.over, r.log1pOf) /\ Log1pBelow(r.over, r.log1pOf)

\* variant: no plateau cap
UtilityCap_None(utility) == utility

\* Math.min(utility, 1.0)
UtilityCap(utility) == IF RatioLessOne(utility) THEN utility ELSE One

UtilityNoWealth(wealth) == ~ArgPositive(wealth)

UtilityNoThreshold(threshold) == ~ArgPositive(threshold)

\* variant: the threshold test comes before the wealth test
calculateUtility_ThresholdFirst(wealth, threshold) ==
  IF UtilityNoThreshold(threshold) THEN One
  ELSE IF UtilityNoWealth(wealth) THEN Zero
  ELSE UtilityCap(Log1pRatio(wealth, threshold))

calculateUtility(wealth, threshold) ==
  IF UtilityNoWealth(wealth) THEN Zero
  ELSE IF UtilityNoThreshold(threshold) THEN One
  ELSE UtilityCap(Log1pRatio(wealth, threshold))

\* order of a utility value against 0 and 1 (a quotient has over > 0)
UtilLess(v, bound) ==
  IF IsLog1pRatio(v)
  THEN (IF bound = Zero THEN ArgLess(v.log1pOf, Plain(0)) ELSE RatioLessOne(v))
  ELSE NumLess(v, bound)

UtilGreater(v, bound) ==
  IF IsLog1pRatio(v)
  THEN (IF bound = Zero THEN ArgPositive(v.log1pOf) ELSE RatioGreaterOne(v))
  ELSE NumLess(bound, v)

\* ---------------------------------------------- calculateGiniCoefficient
RECURSIVE InsertAsc(_, _)
InsertAsc(x, s) ==
  IF s = <<>> THEN <<x>>
  ELSE IF x - Head(s) < 0 THEN <<x>> \o s
  ELSE <<Head(s)>> \o InsertAsc(x, Tail(s))

RECURSIVE SortAsc(_)
SortAsc(s) == IF s = <<>> THEN <<>> ELSE InsertAsc(Head(s), SortAsc(Tail(s)))

\* variant: the values are used in the caller's order
GiniSort_None(items) == items

RECURSIVE Reverse(_)
Reverse(s) == IF s = <<>> THEN <<>> ELSE Reverse(Tail(s)) \o <<Head(s)>>

\* variant: the comparator is (a, b) => b - a
GiniSort_Descending(items) == Reverse(SortAsc(items))

\* [...wealthData].sort((a, b) => a - b)
GiniSort(items) == SortAsc(items)

RECURSIVE SumSeq(_)
SumSeq(s) == IF s = <<>> THEN 0 ELSE Head(s) + SumSeq(Tail(s))

\* variant: the weight is 2 * (i + 1) - n
RECURSIVE GiniNumerator_OffByOne(_, _, _)
GiniNumerator_OffByOne(sortedWealth, n, k) ==
  IF k > n THEN 0
  ELSE (2 * k - n) * sortedWealth[k] + GiniNumerator_OffByOne(sortedWealth, n, k + 1)

\* the loop over i = 0..n-1, written with the rank k = i + 1
RECURSIVE GiniNumerator(_, _, _)
GiniNumerator(sortedWealth, n, k) ==
  IF k > n THEN 0
  ELSE (2 * k - n - 1) * sortedWealth[k] + GiniNumerator(sortedWealth, n, k + 1)

calculateGiniCoefficient(wealthData) ==
  IF ~wealthData.isArray \/ Len(wealthData.items) = 0 THEN Zero
  ELSE LET sortedWealth == GiniSort(wealthData.items)
           n == Len(sortedWealth)
           totalWealth == SumSeq(sortedWealth)
       IN IF totalWealth = 0 THEN Zero
          ELSE DivInt(Num(GiniNumerator(sortedWealth, n, 1)), n * totalWealth)

\* variant: wealthData.sort(...) sorts the caller's array in place
GiniInputAfter_InPlace(items) == SortAsc(items)

\* the caller's array after the call: the sort acts on the copy [...wealthData]
GiniInputAfter(items) == items

\* --------------------------------------------------- calculatePalmaRatio
Min2(a, b) == IF a < b THEN a ELSE b
Max2(a, b) == IF a > b THEN a ELSE b

\* Array.prototype.slice(start): a negative start counts from the end,
\* and -0 is 0
SliceFrom(s, start) ==
  LET from == IF start < 0 THEN Max2(Len(s) + start, 0) ELSE Min2(start, Len(s))
  IN SubSeq(s, from + 1, Len(s))

\* Array.prototype.slice(0, end) for end >= 0
SliceTo(s, end) == SubSeq(s, 1, Min2(end, Len(s)))

\* [...wealthData].sort((a, b) => a - b)
\* variant: the values are taken in input order, without the sort
PalmaSort_None(items) == items

PalmaSort(items) == SortAsc(items)

\* Math.floor(n * 0.4)
PalmaBottomCount(n) == (n * 4) \div 10

\* Math.floor(n * 0.1)
PalmaTopCount(n) == n \div 10

\* sortedWealth.slice(0, bottom40Count)
PalmaBottomSlice(sortedWealth, bottom40Count) == SliceTo(sortedWealth, bottom40Count)

\* variant: slice(top10Count), the sign of the start index is lost
PalmaTopSlice_FromStart(sortedWealth, top10Count) == SliceFrom(sortedWealth, top10Count)

\* sortedWealth.slice(-top10Count)
PalmaTopSlice(sortedWealth, top10Count) == SliceFrom(sortedWealth, 0 - top10Count)

\* variant: the zero-total test is missing
PalmaZeroTotal_Never(totalWealth) == FALSE

PalmaZeroTotal(totalWealth) == totalWealth = 0

\* top10Share / bottom40Share: the double quotient of two doubles that are
\* themselves rounded quotients. The value is kept as its two operands; it
\* is not the nearest double of the exact quotient of the sums.
ShareRatio(top10Share, bottom40Share) == [quotOf |-> top10Share, by |-> bottom40Share]

IsShareRatio(v) == "quotOf" \in DOMAIN v

\* variant: 0 instead of Infinity when the bottom share is not positive
PalmaResult_ZeroWhenNoBottom(top10Share, bottom40Share) ==
  IF NumLess(Zero, bottom40Share) THEN ShareRatio(top10Share, bottom40Share) ELSE Zero

\* bottom40Share > 0 ? top10Share / bottom40Share : Infinity
PalmaResult(top10Share, bottom40Share) ==
  IF NumLess(Zero, bottom40Share) THEN ShareRatio(top10Share, bottom40Share) ELSE Infinity

calculatePalmaRatio(wealthData) ==
  IF ~wealthData.isArray \/ Len(wealthData.items) = 0 THEN Zero
  ELSE LET sortedWealth == PalmaSort(wealthData.items)
           n == Len(sortedWealth)
           totalWealth == SumSeq(sortedWealth)
       IN IF PalmaZeroTotal(totalWealth) THEN Zero
          ELSE LET bottom40Count == PalmaBottomCount(n)
                   bottom40Wealth == SumSeq(PalmaBottomSlice(sortedWealth, bottom40Count))
                   top10Count == PalmaTopCount(n)
                   top10Wealth == SumSeq(PalmaTopSlice(sortedWealth, top10Count))
                   bottom40Share == DivInt(Num(bottom40Wealth), totalWealth)
                   top10Share == DivInt(Num(top10Wealth), totalWealth)
               IN PalmaResult(top10Share, bottom40Share)

\* the caller's array after the call: the sort acts on the copy [...wealthData]
PalmaInputAfter(items) == items

\* ---------------------------------------------------------------- inputs
Wealths == 0..MaxWealth

\* arguments of calculateUtility: the small integers, and 2^HugeExp with
\* two neighbours, one next to it and one just too close to be Log1pApart
\* from the other
HugeUnits == {0, 1, 2 ^ (HugeExp - 40) + 1}
UtilityWealths ==
  {Plain(n) : n \in (0 - 1)..MaxWealth} \cup {Huge(u) : u \in HugeUnits}
UtilityThresholds ==
  {Plain(n) : n \in (0 - 1)..(MaxWealth + 1)} \cup {Huge(u) : u \in HugeUnits}

\* of the calls calculateUtility(w, t) with w in wealths and t in
\* thresholds, the pairs of arguments on which the platform's Math.log1p
\* decides
ClosePairs(wealths, thresholds) ==
  {p \in wealths \X thresholds :
     ArgPositive(p[1]) /\ ArgLess(p[1], p[2]) /\ ~Log1pApart(p[1], p[2])}

\* what the platform's Math.log1p can do on those pairs; nothing is said
\* about pairs no call hands to it
Platforms(wealths, thresholds) == [ClosePairs(wealths, thresholds) -> BOOLEAN]

Thresholds == (0 - 1)..(MaxWealth + 1)

\* the arguments processWealthData hands to calculateUtility
RecordWealths == {Plain(w) : w \in Wealths}
RecordThresholds == {Plain(t) : t \in Thresholds}

Points == {Point(w) : w \in Wealths} \cup {NullPoint}

SeqsUpTo(S, n) == UNION {[1..k -> S] : k \in 0..n}

Datasets == {Arr(items) : items \in SeqsUpTo(Points, MaxLen)} \cup {Absent}

NoCall == [fn |-> "none", threshold |-> 0, wealth |-> 0, ret |-> Return(Zero)]

HasNull(d) == \E i \in 1..Len(d.items) : d.items[i].isNull

\* rawWealthData.map(p => p.wealth): the flat array of wealth values; a
\* TypeError when rawWealthData, or one of its entries, is null or undefined
WealthValues(d) ==
  IF ~d.isArray \/ HasNull(d) THEN Throw
  ELSE Return(Arr([i \in 1..Len(d.items) |-> d.items[i].wealth]))

\* the flat array the caller holds for its collection: none (null) when
\* there is no collection to take it from or the projection raises
CallerValues(d) ==
  IF WealthValues(d).threw THEN Absent ELSE WealthValues(d).value

\* ----------------------------------------------------- processWealthData
\* variant: the utility is computed with the arguments exchanged
ProjectedPoint_SwappedArgs(point, threshold) ==
  [wealth |-> point.wealth,
   utility |-> calculateUtility(Plain(threshold), Plain(point.wealth)),
   wealthPct |-> point.wealth]

\* the object built for one record by rawWealthData.map
ProjectedPoint(point, threshold) ==
  [wealth |-> point.wealth,
   utility |-> calculateUtility(Plain(point.wealth), Plain(threshold)),
   wealthPct |-> point.wealth]

\* variant: strict comparison
ThresholdMatch_Strict(point, threshold) == point.wealth > threshold

\* the predicate of rawWealthData.findIndex
ThresholdMatch(point, threshold) == point.wealth >= threshold

\* Array.prototype.findIndex from position i (1-based) on; the result is
\* the 0-based index, or -1
RECURSIVE FindIndex(_, _, _)
FindIndex(items, threshold, i) ==
  IF i > Len(items) THEN 0 - 1
  ELSE IF ThresholdMatch(items[i], threshold) THEN i - 1
  ELSE FindIndex(items, threshold, i + 1)

\* rawWealthData.map raises a TypeError when rawWealthData is null or
\* undefined, and its callback does when an entry is
ProcessThrows(rawWealthData) == ~rawWealthData.isArray \/ HasNull(rawWealthData)

processWealthData(rawWealthData, threshold) ==
  IF ProcessThrows(rawWealthData) THEN Throw
  ELSE LET processedData == [i \in 1..Len(rawWealthData.items) |->
                               ProjectedPoint(rawWealthData.items[i], threshold)]
           wealthValues == WealthValues(rawWealthData).value
           excess == calculateExcessWealth(rawWealthData, threshold).value
           gini == calculateGiniCoefficient(wealthValues)
           palma == calculatePalmaRatio(wealthValues)
       IN Return([data |-> processedData,
                  metrics |-> [excess |-> excess,
                               gini |-> gini,
                               palma |-> palma,
                               totalDataPoints |-> Len(rawWealthData.items),
                               thresholdIndex |-> FindIndex(rawWealthData.items, threshold, 1)]])

\* ------------------------------------------------ WealthInequalityApp
\* a query parameter: its decoded text, or absent (get returns null)
NoParam == [present |-> FALSE, text |-> <<>>]
Param(text) == [present |-> TRUE, text |-> text]

\* window.location.search without parameters
NoSearch == [plateau |-> NoParam, interventions |-> NoParam]

\* String(n) for an integer n >= 0: its decimal digits
RECURSIVE DecimalDigits(_)
DecimalDigits(n) ==
  IF n < 10 THEN <<n>> ELSE Append(DecimalDigits(n \div 10), n % 10)

\* the integer written by a sequence of decimal digits; 0 for the empty text
RECURSIVE DigitsValue(_)
DigitsValue(text) ==
  IF text = <<>> THEN 0
  ELSE 10 * DigitsValue(SubSeq(text, 1, Len(text) - 1)) + text[Len(text)]

\* Number(urlParams.get(name)): Number(null) is 0
ToNumber(param) == IF param.present THEN DigitsValue(param.text) ELSE 0

\* Number(urlParams.get('plateau')) || 200000
InitialThreshold(search) ==
  LET n == ToNumber(search.plateau)
  IN IF n = 0 THEN DefaultThreshold ELSE n

\* a text is a sequence of symbols: decimal digits, commas and the names
\* of the interventions (a name is one symbol)
Name(name) == <<name>>

\* active.join(','): the texts with a comma between neighbours
RECURSIVE Join(_)
Join(active) ==
  IF Len(active) = 0 THEN <<>>
  ELSE IF Len(active) = 1 THEN Head(active)
  ELSE Head(active) \o <<",">> \o Join(Tail(active))

\* text.split(','): the texts between the commas, the empty ones included;
\* field is the text read since the last comma
RECURSIVE SplitFrom(_, _, _)
SplitFrom(text, i, field) ==
  IF i > Len(text) THEN <<field>>
  ELSE IF text[i] = "," THEN <<field>> \o SplitFrom(text, i + 1, <<>>)
  ELSE SplitFrom(text, i + 1, Append(field, text[i]))

Split(text) == SplitFrom(text, 1, <<>>)

DefaultInterventions == <<Name("healthcare"), Name("homelessness")>>

\* urlParams.get('interventions')?.split(',') || ['healthcare', 'homelessness']
InitialInterventions(search) ==
  IF search.interventions.present THEN Split(search.interventions.text)
  ELSE DefaultInterventions

\* Array.prototype.includes
Includes(list, name) == \E i \in 1..Len(list) : list[i] = Name(name)

\* the component state of a view created at the given query string
Mount(search) ==
  [threshold |-> InitialThreshold(search),
   showHomelessness |-> Includes(InitialInterventions(search), "homelessness"),
   showHealthcare |-> Includes(InitialInterventions(search), "healthcare"),
   showPoverty |-> Includes(InitialInterventions(search), "poverty"),
   showEducation |-> Includes(InitialInterventions(search), "education"),
   showReality |-> FALSE]

\* the names pushed to active, in the order of the effect
Active(state) ==
  (IF state.showHealthcare THEN <<Name("healthcare")>> ELSE <<>>)
  \o (IF state.showHomelessness THEN <<Name("homelessness")>> ELSE <<>>)
  \o (IF state.showPoverty THEN <<Name("poverty")>> ELSE <<>>)
  \o (IF state.showEducation THEN <<Name("education")>> ELSE <<>>)

\* the query string written by the URL effect (replaceState)
UrlEffect(state) ==
  [plateau |-> Param(DecimalDigits(state.threshold)),
   interventions |-> IF Len(Active(state)) > 0 THEN Param(Join(Active(state)))
                     ELSE NoParam]

\* the dependencies of the URL effect
UrlDeps(state) ==
  <<state.threshold, state.showHomelessness, state.showHealthcare,
    state.showPoverty, state.showEducation>>

\* the values set by resetDefaults
DefaultState ==
  [threshold |-> DefaultThreshold,
   showHomelessness |-> TRUE,
   showHealthcare |-> TRUE,
   showPoverty |-> FALSE,
   showEducation |-> FALSE,
   showReality |-> FALSE]

\* positions of the slider: min 0, step SliderStep
SliderValues == {k * SliderStep : k \in 0..MaxSliderSteps}

\* ---------------------------------------------------------------- state
\* data:       the caller's collection of wealth records
\* last:       the most recent call and how it ended
\* prevExcess: the calculateExcessWealth call before the most recent one
\* values:     the caller's flat array of the wealth values of data
\* app:        the state of the WealthInequalityApp view
\* location:   the query parameters of window.location
\* effectPending: the view was rendered with changed dependencies and the
\*             URL effect of that render has not run yet
\* log1pSame:  the platform's Math.log1p on close arguments (declared above)
VARIABLES data, last, prevExcess, values, app, location, effectPending

vars ==
  <<data, last, prevExcess, values, app, location, effectPending, log1pSame>>

\* a view opened without query parameters: the first render is committed,
\* its URL effect is still to run
AppMounted ==
  /\ location = NoSearch
  /\ app = Mount(location)
  /\ effectPending = TRUE

\* an array argument as the call leaves it
ArgAfter(arg, itemsAfter) == IF arg.isArray THEN Arr(itemsAfter) ELSE arg

Init ==
  /\ data \in Datasets
  /\ values = CallerValues(data)
  /\ last = NoCall
  /\ prevExcess = NoCall
  /\ AppMounted
  /\ log1pSame \in Platforms(RecordWealths, RecordThresholds)

\* the caller evaluates calculateExcessWealth(data, threshold)
CallExcess(threshold) ==
  /\ last' = [NoCall EXCEPT !.fn = "calculateExcessWealth",
                            !.threshold = threshold,
                            !.ret = calculateExcessWealth(data, threshold)]
  /\ prevExcess' = IF last.fn = "calculateExcessWealth" THEN last ELSE prevExcess
  /\ UNCHANGED <<data, values, app, location, effectPending, log1pSame>>

\* the caller evaluates calculateUtility(wealth, threshold)
CallUtility(wealth, threshold) ==
  /\ last' = [NoCall EXCEPT !.fn = "calculateUtility",
                            !.wealth = wealth,
                            !.threshold = threshold,
                            !.ret = Return(calculateUtility(wealth, threshold))]
  /\ UNCHANGED <<data, prevExcess, values, app, location, effectPending, log1pSame>>

\* the caller evaluates calculateGiniCoefficient on the wealth values of
\* its collection
CallGini ==
  /\ ~HasNull(data)
  /\ last' = [NoCall EXCEPT !.fn = "calculateGiniCoefficient",
                            !.ret = Return(calculateGiniCoefficient(values))]
  /\ values' = ArgAfter(values, GiniInputAfter(values.items))
  /\ UNCHANGED <<data, prevExcess, app, location, effectPending, log1pSame>>

\* the caller evaluates calculatePalmaRatio on the wealth values of its
\* collection
CallPalma ==
  /\ ~HasNull(data)
  /\ last' = [NoCall EXCEPT !.fn = "calculatePalmaRatio",
                            !.ret = Return(calculatePalmaRatio(values))]
  /\ values' = ArgAfter(values, PalmaInputAfter(values.items))
  /\ UNCHANGED <<data, prevExcess, app, location, effectPending, log1pSame>>

\* the caller evaluates processWealthData(data, threshold)
CallProcess(threshold) ==
  /\ last' = [NoCall EXCEPT !.fn = "processWealthData",
                            !.threshold = threshold,
                            !.ret = processWealthData(data, threshold)]
  /\ UNCHANGED <<data, prevExcess, values, app, location, effectPending, log1pSame>>

\* collections of ten records and more: every array over 0..PalmaMaxWealth,
\* and the values 1..10 of the unit test in ascending and descending order
OneToTen == Arr([i \in 1..10 |-> Point(i)])
TenToOne == Arr([i \in 1..10 |-> Point(11 - i)])

LargeArray(n, f) == Arr([i \in 1..n |-> Point(f[i])])

InitLarge ==
  /\ \/ \E n \in 10..(10 + PalmaExtraLen) :
          \E f \in [1..n -> 0..PalmaMaxWealth] : data = LargeArray(n, f)
     \/ data \in {OneToTen, TenToOne}
  /\ values = CallerValues(data)
  /\ last = NoCall
  /\ prevExcess = NoCall
  /\ AppMounted
  /\ log1pSame \in Platforms({}, {})

NextLarge == CallPalma

SpecLarge == InitLarge /\ [][NextLarge]_vars

\* calculateUtility reads neither the collection nor an earlier result:
\* its calls are explored on their own
InitUtility ==
  /\ data = Absent
  /\ values = CallerValues(data)
  /\ last = NoCall
  /\ prevExcess = NoCall
  /\ AppMounted
  /\ log1pSame \in Platforms(UtilityWealths, UtilityThresholds)

NextUtility ==
  \E w \in UtilityWealths, t \in UtilityThresholds : CallUtility(w, t)

SpecUtility == InitUtility /\ [][NextUtility]_vars

\* the view of WealthInequalityApp. A handler sets state and the view is
\* rendered again; the URL effect of a render is a callback of its own that
\* React calls later, and before it renders the next update
InitApp ==
  /\ data = Absent
  /\ values = CallerValues(data)
  /\ last = NoCall
  /\ prevExcess = NoCall
  /\ AppMounted
  /\ log1pSame \in Platforms({}, {})

\* a render schedules the URL effect when a dependency changed
DepsChanged(before, after) == UrlDeps(after) # UrlDeps(before)

\* the slider is moved: onValueChange sets the threshold; the view is
\* rendered with the new state
SetThreshold(val) ==
  /\ ~effectPending
  /\ app' = [app EXCEPT !.threshold = val]
  /\ effectPending' = DepsChanged(app, app')
  /\ UNCHANGED <<data, last, prevExcess, values, location, log1pSame>>

SetShowHomelessness(checked) ==
  /\ ~effectPending
  /\ app' = [app EXCEPT !.showHomelessness = checked]
  /\ effectPending' = DepsChanged(app, app')
  /\ UNCHANGED <<data, last, prevExcess, values, location, log1pSame>>

SetShowHealthcare(checked) ==
  /\ ~effectPending
  /\ app' = [app EXCEPT !.showHealthcare = checked]
  /\ effectPending' = DepsChanged(app, app')
  /\ UNCHANGED <<data, last, prevExcess, values, location, log1pSame>>

SetShowPoverty(checked) ==
  /\ ~effectPending
  /\ app' = [app EXCEPT !.showPoverty = checked]
  /\ effectPending' = DepsChanged(app, app')
  /\ UNCHANGED <<data, last, prevExcess, values, location, log1pSame>>

SetShowEducation(checked) ==
  /\ ~effectPending
  /\ app' = [app EXCEPT !.showEducation = checked]
  /\ effectPending' = DepsChanged(app, app')
  /\ UNCHANGED <<data, last, prevExcess, values, location, log1pSame>>

\* showReality is not a dependency of the URL effect
SetShowReality(checked) ==
  /\ ~effectPending
  /\ app' = [app EXCEPT !.showReality = checked]
  /\ effectPending' = DepsChanged(app, app')
  /\ UNCHANGED <<data, last, prevExcess, values, location, log1pSame>>

\* "Reset to defaults"
ResetDefaults ==
  /\ ~effectPending
  /\ app' = DefaultState
  /\ effectPending' = DepsChanged(app, app')
  /\ UNCHANGED <<data, last, prevExcess, values, location, log1pSame>>

\* the callback of useEffect: the URL is rewritten from the rendered state
RunUrlEffect ==
  /\ effectPending
  /\ location' = UrlEffect(app)
  /\ effectPending' = FALSE
  /\ UNCHANGED <<data, last, prevExcess, values, app, log1pSame>>

\* the page is opened again at the current URL: a first render from it
Reload ==
  /\ app' = Mount(location)
  /\ effectPending' = TRUE
  /\ UNCHANGED <<data, last, prevExcess, values, location, log1pSame>>

NextApp ==
  \/ \E val \in SliderValues : SetThreshold(val)
  \/ \E checked \in BOOLEAN : SetShowHomelessness(checked)
  \/ \E checked \in BOOLEAN : SetShowHealthcare(checked)
  \/ \E checked \in BOOLEAN : SetShowPoverty(checked)
  \/ \E checked \in BOOLEAN : SetShowEducation(checked)
  \/ \E checked \in BOOLEAN : SetShowReality(checked)
  \/ ResetDefaults
  \/ RunUrlEffect
  \/ Reload

SpecApp == InitApp /\ [][NextApp]_vars

Next ==
  \/ \E t \in Thresholds : CallExcess(t)
  \/ CallGini
  \/ CallPalma
  \/ \E t \in Thresholds : CallProcess(t)

Spec == Init /\ [][Next]_vars

\* ======================================================================
\* Properties of calculateExcessWealth
\* ======================================================================
IsExcessCall == last.fn = "calculateExcessWealth"

\* the collection is a non-empty array of well-formed records
ProperData == data.isArray /\ Len(data.items) > 0 /\ ~HasNull(data)

SomeExceeds(threshold) ==
  data.isArray /\ \E i \in 1..Len(data.items) :
     ~data.items[i].isNull /\ data.items[i].wealth > threshold

\* sum of (wealth - threshold) over the records from position i on whose
\* wealth is strictly greater than threshold
RECURSIVE SumAbove(_, _, _)
SumAbove(items, threshold, i) ==
  IF i > Len(items) THEN 0
  ELSE (IF items[i].wealth > threshold THEN items[i].wealth - threshold ELSE 0)
       + SumAbove(items, threshold, i + 1)

\* C1: for a non-empty dataset and a threshold > 0 the result is the sum of
\* (wealth - threshold) over exactly the records with wealth > threshold,
\* divided by 10^12; records at the threshold contribute nothing.
C1_ExcessIsScaledSumAbove ==
  (IsExcessCall /\ ProperData /\ last.threshold > 0)
    => /\ ~last.ret.threw
       /\ NumEq(last.ret.value,
                [num |-> SumAbove(data.items, last.threshold, 1), den |-> 1, e10 |-> 0 - 12])

C1_Witness ==
  /\ IsExcessCall /\ ProperData /\ last.threshold > 0
  /\ SomeExceeds(last.threshold)
  /\ \E i \in 1..Len(data.items) : data.items[i].wealth = last.threshold
  /\ \E i \in 1..Len(data.items) : data.items[i].wealth < last.threshold
  /\ NumLess(Zero, last.ret.value)

\* C2: the result is exactly 0, and no error is raised, whenever the data is
\* empty or absent or the threshold is <= 0 (0 included), whatever the
\* wealth values are.
C2_ExcessDegenerateIsZero ==
  (IsExcessCall /\ (~data.isArray \/ Len(data.items) = 0 \/ last.threshold <= 0))
    => (~last.ret.threw /\ NumEq(last.ret.value, Zero))

C2_Witness ==
  /\ IsExcessCall /\ last.threshold = 0
  /\ SomeExceeds(0)
  /\ ~last.ret.threw /\ NumEq(last.ret.value, Zero)

\* C3: with threshold exactly 0 the result is strictly greater than 0 for a
\* dataset that holds at least one record with positive wealth.
C3_ExcessAtZeroThresholdPositive ==
  (IsExcessCall /\ ProperData /\ last.threshold = 0 /\ SomeExceeds(0))
    => (~last.ret.threw /\ NumLess(Zero, last.ret.value))

\* two successive calls on the same data
TwoExcessCalls == IsExcessCall /\ prevExcess.fn = "calculateExcessWealth"

\* C4 (as stated): for fixed data and any two thresholds t1 <= t2 of any
\* sign, excess(data, t1) >= excess(data, t2).
C4_ExcessMonotoneAnySign ==
  TwoExcessCalls =>
    /\ (prevExcess.threshold <= last.threshold
          => NumLeq(last.ret.value, prevExcess.ret.value))
    /\ (last.threshold <= prevExcess.threshold
          => NumLeq(prevExcess.ret.value, last.ret.value))

\* C4 (amended): for fixed data and any two positive thresholds
\* 0 < t1 <= t2, excess(data, t1) >= excess(data, t2).
C4_ExcessMonotonePositive ==
  (TwoExcessCalls /\ prevExcess.threshold > 0 /\ last.threshold > 0) =>
    /\ (prevExcess.threshold <= last.threshold
          => NumLeq(last.ret.value, prevExcess.ret.value))
    /\ (last.threshold <= prevExcess.threshold
          => NumLeq(prevExcess.ret.value, last.ret.value))

C4_Witness ==
  /\ TwoExcessCalls
  /\ 0 < prevExcess.threshold /\ prevExcess.threshold < last.threshold
  /\ NumLess(Zero, last.ret.value)
  /\ NumLess(last.ret.value, prevExcess.ret.value)

\* C5 (as stated): the result is >= 0 for every input, exactly 0 when no
\* record exceeds the threshold, and strictly positive whenever at least one
\* record's wealth exceeds the threshold.
C5_ExcessPositiveIffExceeds ==
  IsExcessCall =>
    /\ ~last.ret.threw
    /\ NumLeq(Zero, last.ret.value)
    /\ (~SomeExceeds(last.threshold) => NumEq(last.ret.value, Zero))
    /\ (SomeExceeds(last.threshold) => NumLess(Zero, last.ret.value))

\* C5 (amended): the result is >= 0 for every input, exactly 0 when no
\* record exceeds the threshold or the threshold is <= 0, and strictly
\* positive whenever the threshold is > 0, every entry is a record and at
\* least one record's wealth exceeds the threshold.
C5_ExcessPositiveIffExceedsPositiveThreshold ==
  IsExcessCall =>
    /\ ~last.ret.threw
    /\ NumLeq(Zero, last.ret.value)
    /\ ((~SomeExceeds(last.threshold) \/ last.threshold <= 0)
          => NumEq(last.ret.value, Zero))
    /\ ((last.threshold > 0 /\ ProperData /\ SomeExceeds(last.threshold))
          => NumLess(Zero, last.ret.value))

C5_Witness ==
  /\ IsExcessCall /\ ProperData
  /\ last.threshold > 0
  /\ SomeExceeds(last.threshold)
  /\ Len(data.items) = 1
  /\ NumLess(Zero, last.ret.value)

\* C6: no exception reaches the caller; when evaluating the records raises
\* an error (a null entry in the collection) the call returns 0.
C6_ExcessNeverThrows ==
  IsExcessCall =>
    /\ ~last.ret.threw
    /\ (HasNull(data) => NumEq(last.ret.value, Zero))

C6_Witness ==
  /\ IsExcessCall /\ last.threshold > 0
  /\ HasNull(data) /\ SomeExceeds(last.threshold)
  /\ last.ret = Return(Zero)

\* ======================================================================
\* Properties of calculateUtility
\* ======================================================================
IsUtilityCall == last.fn = "calculateUtility"

\* C7 (as stated): calculateUtility(w, 0) is 1 for any wealth w, and any
\* threshold <= 0 yields 1 for any non-negative wealth, w = 0 included.
C7_UtilityOneAtNoThreshold ==
  IsUtilityCall =>
    /\ (last.threshold = Plain(0) => last.ret.value = One)
    /\ ((~ArgPositive(last.threshold) /\ ~ArgLess(last.wealth, Plain(0)))
          => last.ret.value = One)

\* C7 (amended): any threshold <= 0 yields 1 for any wealth w > 0; for
\* wealth w <= 0 the result is 0 whatever the threshold, threshold 0 included.
C7_UtilityOneAtNoThresholdPositiveWealth ==
  IsUtilityCall =>
    /\ ((~ArgPositive(last.threshold) /\ ArgPositive(last.wealth))
          => last.ret.value = One)
    /\ (~ArgPositive(last.wealth) => last.ret.value = Zero)

C7_Witness ==
  /\ IsUtilityCall
  /\ last.threshold = Plain(0) /\ ArgPositive(last.wealth)
  /\ last.ret.value = One

\* C8: the result lies in [0,1] for every wealth >= 0 and threshold >= 0,
\* and is 0 whenever wealth <= 0 and threshold > 0.
C8_UtilityInUnitInterval ==
  IsUtilityCall =>
    /\ ((~ArgLess(last.wealth, Plain(0)) /\ ~ArgLess(last.threshold, Plain(0)))
          => (~UtilLess(last.ret.value, Zero) /\ ~UtilGreater(last.ret.value, One)))
    /\ ((~ArgPositive(last.wealth) /\ ArgPositive(last.threshold))
          => last.ret.value = Zero)

C8_Witness ==
  /\ IsUtilityCall
  /\ ArgPositive(last.wealth) /\ ArgLess(last.wealth, last.threshold)
  /\ UtilGreater(last.ret.value, Zero) /\ UtilLess(last.ret.value, One)

\* C9 (as stated): for wealth > 0 and threshold > 0 the result is
\* min(1, ln(1+wealth)/ln(1+threshold)): exactly 1 when wealth = threshold,
\* 1 for every wealth > threshold, strictly less than 1 when wealth < threshold.
C9_UtilityIsCappedLogRatio ==
  (IsUtilityCall /\ ArgPositive(last.wealth) /\ ArgPositive(last.threshold)) =>
    /\ (~ArgLess(last.wealth, last.threshold) => last.ret.value = One)
    /\ (ArgLess(last.wealth, last.threshold)
          => /\ last.ret.value = [log1pOf |-> last.wealth, over |-> last.threshold]
             /\ UtilLess(last.ret.value, One))

\* C9 (amended): for wealth > 0 and threshold > 0 the result is exactly 1
\* when wealth >= threshold. When wealth < threshold and
\* threshold / (threshold - wealth) < 2^40 it is the double quotient
\* Math.log1p(wealth) / Math.log1p(threshold), strictly less than 1. When
\* wealth < threshold are closer than that, it is exactly 1 where
\* Math.log1p returns the same double for both, and that quotient, strictly
\* less than 1, where it does not.
C9_UtilityIsCappedRatioOfDoubleLogs ==
  (IsUtilityCall /\ ArgPositive(last.wealth) /\ ArgPositive(last.threshold)) =>
    /\ (~ArgLess(last.wealth, last.threshold) => last.ret.value = One)
    /\ ((ArgLess(last.wealth, last.threshold)
           /\ Log1pApart(last.wealth, last.threshold))
          => /\ last.ret.value = [log1pOf |-> last.wealth, over |-> last.threshold]
             /\ UtilLess(last.ret.value, One))
    /\ ((ArgLess(last.wealth, last.threshold)
           /\ ~Log1pApart(last.wealth, last.threshold))
          => IF log1pSame[<<last.wealth, last.threshold>>]
             THEN last.ret.value = One
             ELSE /\ last.ret.value
                       = [log1pOf |-> last.wealth, over |-> last.threshold]
                  /\ UtilLess(last.ret.value, One))

\* wealth < threshold, both beyond 2^HugeExp and far enough apart: the
\* result is the quotient of two distinct doubles, below 1
C9_Witness ==
  /\ IsUtilityCall
  /\ last.wealth.huge = 1 /\ ArgLess(last.wealth, last.threshold)
  /\ Log1pApart(last.wealth, last.threshold)
  /\ last.ret.value = [log1pOf |-> last.wealth, over |-> last.threshold]
  /\ UtilLess(last.ret.value, One)

\* ======================================================================
\* Properties of calculateGiniCoefficient
\* ======================================================================
IsGiniCall == last.fn = "calculateGiniCoefficient"

\* C10: the result lies in [0,1] for every array of non-negative values.
C10_GiniInUnitInterval ==
  IsGiniCall => (NumLeq(Zero, last.ret.value) /\ NumLeq(last.ret.value, One))

C10_Witness ==
  /\ IsGiniCall /\ data.isArray /\ Len(data.items) >= 2
  /\ data.items[1].wealth > data.items[2].wealth
  /\ NumLess(Zero, last.ret.value) /\ NumLess(last.ret.value, One)

IsProperValues == values.isArray /\ Len(values.items) > 0

AllEqual(items) == \A i, j \in 1..Len(items) : items[i] = items[j]

\* C11: the result is 0 whenever all input values are equal: the empty
\* array, a single-element array, an all-zero array and any constant array.
C11_GiniZeroForEqualValues ==
  (IsGiniCall /\ values.isArray /\ AllEqual(values.items))
    => NumEq(last.ret.value, Zero)

C11_Witness ==
  /\ IsGiniCall /\ values.isArray
  /\ Len(values.items) >= 2 /\ AllEqual(values.items)
  /\ values.items[1] > 0
  /\ NumEq(last.ret.value, Zero)

Abs(x) == IF x < 0 THEN 0 - x ELSE x

\* sum of |x_a - x_j| over j >= b
RECURSIVE RowAbsSum(_, _, _)
RowAbsSum(items, a, b) ==
  IF b > Len(items) THEN 0
  ELSE Abs(items[a] - items[b]) + RowAbsSum(items, a, b + 1)

\* sum of |x_i - x_j| over the ordered pairs (i, j) with i >= a
RECURSIVE PairAbsSum(_, _)
PairAbsSum(items, a) ==
  IF a > Len(items) THEN 0
  ELSE RowAbsSum(items, a, 1) + PairAbsSum(items, a + 1)

\* C12: for a non-empty array of non-negative values with total T # 0 the
\* result equals the sum over all ordered pairs of |x_i - x_j| divided by
\* 2 * n * T.
C12_GiniIsMeanAbsoluteDifference ==
  (IsGiniCall /\ IsProperValues /\ SumSeq(values.items) # 0)
    => NumEq(last.ret.value,
             [num |-> PairAbsSum(values.items, 1),
              den |-> 2 * Len(values.items) * SumSeq(values.items),
              e10 |-> 0])

C12_Witness ==
  /\ IsGiniCall /\ IsProperValues
  /\ Len(values.items) >= 3
  /\ values.items[1] > values.items[2] /\ values.items[3] > values.items[2]
  /\ values.items[2] > 0
  /\ NumLess(Zero, last.ret.value)

\* ======================================================================
\* Properties of calculatePalmaRatio
\* ======================================================================
IsPalmaCall == last.fn = "calculatePalmaRatio"

\* the real number a result stands for when no division rounds: a quotient
\* of shares lies within a few units in the last place of it, has its sign
\* and is 0 exactly when it is
PalmaExact(v) == IF IsShareRatio(v) THEN NumDiv(v.quotOf, v.by) ELSE v

\* sum of the k smallest values
SmallestSum(items, k) == SumSeq(SubSeq(SortAsc(items), 1, k))

\* sum of the k largest values
LargestSum(items, k) ==
  SumSeq(SubSeq(SortAsc(items), Len(items) - k + 1, Len(items)))

\* C13: when floor(0.1 * n) is 0 (n < 10) the top-10% slice is empty with
\* sum 0, so the result is 0 whenever the bottom-40% share is positive.
C13_PalmaZeroWhenTopEmpty ==
  (IsPalmaCall /\ IsProperValues /\ Len(values.items) < 10
     /\ SmallestSum(values.items, (4 * Len(values.items)) \div 10) > 0)
    => NumEq(PalmaExact(last.ret.value), Zero)

\* C14: for n >= 10 non-negative values with nonzero total and positive
\* bottom-40% sum the result is (sum of the floor(0.1 * n) largest values)
\* divided by (sum of the floor(0.4 * n) smallest values); for the values
\* 1..10 it is 10/10 = 1. The result is the quotient of the two sums' shares
\* of the total, and the equality is that of the exact values.
C14_PalmaIsTopOverBottom ==
  (IsPalmaCall /\ IsProperValues /\ Len(values.items) >= 10
     /\ SumSeq(values.items) # 0
     /\ SmallestSum(values.items, (4 * Len(values.items)) \div 10) > 0)
    => /\ last.ret.value
            = ShareRatio(DivInt(Num(LargestSum(values.items, Len(values.items) \div 10)),
                                SumSeq(values.items)),
                         DivInt(Num(SmallestSum(values.items,
                                                (4 * Len(values.items)) \div 10)),
                                SumSeq(values.items)))
       /\ NumEq(PalmaExact(last.ret.value),
                [num |-> LargestSum(values.items, Len(values.items) \div 10),
                 den |-> SmallestSum(values.items, (4 * Len(values.items)) \div 10),
                 e10 |-> 0])
       /\ (data \in {OneToTen, TenToOne}
             => /\ last.ret.value.quotOf = last.ret.value.by
                /\ NumEq(PalmaExact(last.ret.value), One))

C14_Witness ==
  /\ IsPalmaCall /\ data = TenToOne
  /\ NumEq(PalmaExact(last.ret.value), One)

\* C15: for non-negative inputs the result is a finite number >= 0 or
\* +infinity, and it is +infinity exactly when the total is nonzero and the
\* sum of the floor(0.4 * n) smallest values is zero.
C15_PalmaNonNegativeOrInfinite ==
  IsPalmaCall =>
    /\ (IsInfinite(PalmaExact(last.ret.value))
          \/ NumLeq(Zero, PalmaExact(last.ret.value)))
    /\ (IsInfinite(PalmaExact(last.ret.value))
          <=> (/\ values.isArray
               /\ SumSeq(values.items) # 0
               /\ SmallestSum(values.items, (4 * Len(values.items)) \div 10) = 0))

C15_Witness ==
  /\ IsPalmaCall /\ IsProperValues
  /\ Len(values.items) >= 3
  /\ values.items[1] > 0 /\ values.items[3] = 0
  /\ IsInfinite(PalmaExact(last.ret.value))

\* C16: the result is exactly 0 (not +infinity, not an undefined ratio) when
\* the input is empty or absent or the total of all values is 0.
C16_PalmaDegenerateIsZero ==
  (IsPalmaCall /\ (~values.isArray \/ Len(values.items) = 0 \/ SumSeq(values.items) = 0))
    => last.ret.value = Zero

C16_Witness ==
  /\ IsPalmaCall /\ IsProperValues
  /\ Len(values.items) >= 2 /\ SumSeq(values.items) = 0
  /\ last.ret.value = Zero

\* ======================================================================
\* Properties of processWealthData
\* ======================================================================
IsProcessCall == last.fn = "processWealthData"

\* the collection is an array of well-formed records (possibly empty)
RecordArray == data.isArray /\ ~HasNull(data)

\* C17: the returned data array has the input's length; at every position
\* wealth and wealthPct equal the input record's wealth and utility equals
\* calculateUtility(wealth, threshold); totalDataPoints is the input length;
\* excess, gini and palma equal the standalone functions on the same input.
C17_ProcessProjectsAndAggregates ==
  (IsProcessCall /\ RecordArray) =>
    /\ ~last.ret.threw
    /\ Len(last.ret.value.data) = Len(data.items)
    /\ \A i \in 1..Len(data.items) :
         /\ last.ret.value.data[i].wealth = data.items[i].wealth
         /\ last.ret.value.data[i].wealthPct = data.items[i].wealth
         /\ last.ret.value.data[i].utility
              = calculateUtility(Plain(data.items[i].wealth), Plain(last.threshold))
    /\ last.ret.value.metrics.totalDataPoints = Len(data.items)
    /\ last.ret.value.metrics.excess = calculateExcessWealth(data, last.threshold).value
    /\ last.ret.value.metrics.gini = calculateGiniCoefficient(WealthValues(data).value)
    /\ last.ret.value.metrics.palma = calculatePalmaRatio(WealthValues(data).value)

C17_Witness ==
  /\ IsProcessCall /\ RecordArray /\ ~last.ret.threw
  /\ Len(data.items) >= 2
  /\ \E i \in 1..Len(data.items) :
       /\ UtilGreater(last.ret.value.data[i].utility, Zero)
       /\ UtilLess(last.ret.value.data[i].utility, One)
  /\ NumLess(Zero, last.ret.value.metrics.excess)
  /\ NumLess(Zero, last.ret.value.metrics.gini)

\* C18: thresholdIndex is the smallest original-order index with
\* wealth >= threshold; it is -1 exactly when no record has
\* wealth >= threshold, and otherwise 0 <= thresholdIndex < totalDataPoints
\* with every earlier record below the threshold.
C18_ThresholdIndexIsFirstAtOrAbove ==
  (IsProcessCall /\ RecordArray) =>
    LET idx == last.ret.value.metrics.thresholdIndex
    IN /\ (idx = 0 - 1
             <=> \A i \in 1..Len(data.items) : data.items[i].wealth < last.threshold)
       /\ (idx # 0 - 1 =>
             /\ 0 <= idx /\ idx < last.ret.value.metrics.totalDataPoints
             /\ data.items[idx + 1].wealth >= last.threshold
             /\ \A j \in 1..idx : data.items[j].wealth < last.threshold)

C18_Witness ==
  /\ IsProcessCall /\ RecordArray /\ ~last.ret.threw
  /\ Len(data.items) >= 3
  /\ last.ret.value.metrics.thresholdIndex = 1
  /\ data.items[2].wealth = last.threshold
  /\ data.items[3].wealth > last.threshold

\* C19: processWealthData never throws, for any input, an empty or absent
\* (null/undefined) collection included.
C19_ProcessNeverThrows ==
  IsProcessCall => ~last.ret.threw

\* ======================================================================
\* Frame
\* ======================================================================
\* C20: no analytics call changes the caller's collection: after every call
\* the array holds the same elements in the same order and the records are
\* unchanged.
C20_CallsLeaveInputUnchanged ==
  [][data' = data /\ values' = values]_vars

C20_Witness ==
  /\ last.fn \in {"calculateGiniCoefficient", "calculatePalmaRatio"}
  /\ IsProperValues
  /\ values.items # SortAsc(values.items)
  /\ values = WealthValues(data).value

\* ======================================================================
\* The earlier excess computation of the WealthInequalityApp component
\* ======================================================================
\* cumWealth - costPlateau: the double difference of two doubles that are
\* themselves rounded quotients, kept as its two operands. It is 0 when they
\* are the same double and has the sign of their order; it need not be the
\* nearest double of the exact difference.
OldDifference(cumWealth, costPlateau) == [minuend |-> cumWealth, subtrahend |-> costPlateau]

IsOldDifference(v) == "minuend" \in DOMAIN v

\* Math.max(0, difference)
OldMax(difference) ==
  IF NumLess(difference.minuend, difference.subtrahend) THEN Zero ELSE difference

\* data.findIndex(d => d.wealth >= threshold), 0-based or -1
OldPlateauIndex(items, threshold) == FindIndex(items, threshold, 1)

\* data.slice(plateauIndex).reduce((sum, d) => sum + (d.wealth || 0), 0),
\* read from the (1-based) position i on
RECURSIVE OldSumFrom(_, _)
OldSumFrom(items, i) ==
  IF i > Len(items) THEN 0
  ELSE items[i].wealth + OldSumFrom(items, i + 1)

\* ... / 1e12
OldCumWealth(items, plateauIndex) ==
  DivPow10(Num(OldSumFrom(items, plateauIndex + 1)), TrillionExp)

\* threshold * data.filter(d => d.wealth <= threshold).length / 1e12
OldCostPlateau(items, threshold) ==
  DivPow10(Num(threshold
               * Cardinality({i \in 1..Len(items) : items[i].wealth <= threshold})),
           TrillionExp)

\* the memoised excess of the component, for well-formed records
OldExcess(items, threshold) ==
  LET plateauIndex == OldPlateauIndex(items, threshold)
  IN IF plateauIndex < 0 \/ Len(items) = 0 THEN Zero
     ELSE OldMax(OldDifference(OldCumWealth(items, plateauIndex),
                               OldCostPlateau(items, threshold)))

\* the real number an earlier excess stands for when the subtraction does
\* not round
OldExact(v) ==
  IF IsOldDifference(v)
  THEN [num |-> v.minuend.num - v.subtrahend.num, den |-> 1, e10 |-> v.minuend.e10]
  ELSE v

\* the subtraction returns one of its operands, or 0, unrounded
OldUnrounded(v) ==
  IsOldDifference(v) =>
    \/ NumEq(v.subtrahend, Zero)
    \/ NumEq(v.minuend, v.subtrahend)

\* x < old is certainly false of the two doubles: the exact values are in
\* the other order (distinct multiples of 10^-12 are further apart than the
\* rounding), or they coincide and the earlier result is unrounded
CertainlyNotBelowOld(x, old) ==
  \/ NumLess(OldExact(old), x)
  \/ (NumEq(OldExact(old), x) /\ OldUnrounded(old))

\* C22: for a well-formed collection and a threshold > 0 that at least one
\* record exceeds, calculateExcessWealth returns strictly less than the
\* earlier computation max(0, sum of the wealth from the first record with
\* wealth >= threshold on - threshold * number of records with
\* wealth <= threshold) / 10^12. Where the exact values coincide and the
\* earlier subtraction rounds, the order of the two doubles is left open
\* and counts for the claim.
C22_ExcessBelowOldMethod ==
  (IsExcessCall /\ ProperData /\ last.threshold > 0 /\ SomeExceeds(last.threshold))
    => /\ ~last.ret.threw
       /\ ~CertainlyNotBelowOld(last.ret.value,
                                OldExcess(data.items, last.threshold))

\* ======================================================================
\* Order of the input
\* ======================================================================
\* the rearrangements of a sequence
PermsOf(items) ==
  LET n == Len(items)
  IN {[i \in 1..n |-> items[q[i]]] :
        q \in {r \in [1..n -> 1..n] :
                 \A a \in 1..n, b \in 1..n : a # b => r[a] # r[b]}}

\* C21: the aggregate metrics do not depend on the order of the input: for
\* every rearrangement of the collection, calculateExcessWealth (same
\* threshold), calculateGiniCoefficient and calculatePalmaRatio return the
\* value they returned for the collection itself, and so do the excess,
\* gini and palma metrics of processWealthData.
C21_MetricsOrderIndependent ==
  /\ (IsExcessCall /\ data.isArray) =>
       \A p \in PermsOf(data.items) :
          LET r == calculateExcessWealth(Arr(p), last.threshold)
          IN r.threw = last.ret.threw /\ NumEq(r.value, last.ret.value)
  /\ (IsGiniCall /\ values.isArray) =>
       \A p \in PermsOf(values.items) :
          NumEq(calculateGiniCoefficient(Arr(p)), last.ret.value)
  /\ (IsPalmaCall /\ values.isArray) =>
       \A p \in PermsOf(values.items) :
          calculatePalmaRatio(Arr(p)) = last.ret.value
  /\ (IsProcessCall /\ RecordArray) =>
       \A p \in PermsOf(data.items) :
          LET r == processWealthData(Arr(p), last.threshold)
          IN /\ ~r.threw /\ ~last.ret.threw
             /\ NumEq(r.value.metrics.excess, last.ret.value.metrics.excess)
             /\ NumEq(r.value.metrics.gini, last.ret.value.metrics.gini)
             /\ r.value.metrics.palma = last.ret.value.metrics.palma

\* processWealthData was called on three distinct values out of order, with
\* one above the threshold, and every metric is positive
C21_Witness ==
  /\ IsProcessCall /\ RecordArray /\ ~last.ret.threw
  /\ Len(data.items) = 3
  /\ data.items[1].wealth > data.items[2].wealth
  /\ data.items[2].wealth < data.items[3].wealth
  /\ data.items[1].wealth # data.items[3].wealth
  /\ last.threshold > 0
  /\ NumLess(Zero, last.ret.value.metrics.excess)
  /\ NumLess(Zero, last.ret.value.metrics.gini)
  /\ NumLess(Zero, PalmaExact(last.ret.value.metrics.palma))

\* ======================================================================
\* The URL of the WealthInequalityApp view
\* ======================================================================
\* C23: after any sequence of slider changes, checkbox toggles and resets,
\* once the URL effect has run, a view created from the URL it wrote has
\* the same threshold and the same four intervention toggles as the
\* current view, threshold 0 and all four toggles off included.
C23_UrlRoundTrip ==
  ~effectPending =>
  LET again == Mount(location)
  IN /\ again.threshold = app.threshold
     /\ again.showHomelessness = app.showHomelessness
     /\ again.showHealthcare = app.showHealthcare
     /\ again.showPoverty = app.showPoverty
     /\ again.showEducation = app.showEducation

====
